---- MODULE Spec2Model ----
(***************************************************************************)
(* Model of laxodev/vector: template<typename T> class vector              *)
(* (src/vector.hpp), a growable array over a std::unique_ptr<T[]> buffer.  *)
(*                                                                         *)
(* Two vector objects are modelled so that copy and move can be exercised. *)
(* A buffer is the sequence of the slots of the T[] array (slot i of the   *)
(* code is element i+1 of the sequence); std::unique_ptr makes every       *)
(* buffer owned by exactly one object, so buffers are kept by value.       *)
(* Element values are 0..MaxVal, 0 being the value-initialised T() that    *)
(* std::make_unique<T[]>(n) puts in every slot.  Dead marks a slot whose   *)
(* destructor was run explicitly (only when T is not trivially             *)
(* destructible).                                                          *)
(*                                                                         *)
(* Undefined behaviour: an access through a null buffer crashes; an access *)
(* beyond the allocated length or through a pointer into a released buffer *)
(* either crashes or goes on, a write being lost and a read yielding any   *)
(* value.                                                                  *)
(***************************************************************************)
EXTENDS Integers, Sequences, FiniteSets, TLC

\* Slots the heap holds: the buffers of all objects together never have more,
\* and no object is explored with a larger size or capacity.
MaxHeap == 3
\* Largest element value explored.
MaxVal == 1

Vecs == {"a", "b"}
Values == 0..MaxVal
Dead == -1
Caps == 0..MaxHeap

\* Return value of an operation returning nothing / a dangling iterator.
NoRet == -1
Stale == -2

VARIABLES
    obj,      \* obj[v]: the vector object v (alive, m_buffer, m_vec_size, m_vec_capacity)
    trivial,  \* std::is_trivially_destructible<T>::value of this instantiation
    crashed,  \* the process was terminated by an invalid memory access
    ub,       \* kind of invalid memory access made by the last operation
    call,     \* the last operation called: its name and its object
    pushes    \* pushes[v]: the values pushed back on v since vector(), while nothing else was called on v

vars == <<obj, trivial, crashed, ub, call, pushes>>

----------------------------------------------------------------------------
\* std::unique_ptr<T[]> holding nothing.
NullPtr == [null |-> TRUE, slots |-> <<>>]

\* std::make_unique<T[]>(n): n value-initialised slots.
make_unique(n) == [null |-> FALSE, slots |-> [i \in 1..n |-> 0]]

\* An object that is not constructed (before its constructor, after its destructor).
Unborn == [alive |-> FALSE, m_buffer |-> NullPtr, m_vec_size |-> 0, m_vec_capacity |-> 0]

InBounds(buf, i) == i >= 0 /\ i < Len(buf.slots)

\* Worst of two kinds of invalid access.
Rank(u) == CASE u = "none" -> 0 [] u = "oob" -> 1 [] u = "stale" -> 2 [] u = "null" -> 3
Worst(u1, u2) == IF Rank(u1) >= Rank(u2) THEN u1 ELSE u2

\* Kind of invalid access made by touching slots [first, first+count) of buf.
Touch(buf, first, count) ==
    IF count <= 0 THEN "none"
    ELSE IF buf.null THEN "null"
    ELSE IF first < 0 \/ first + count > Len(buf.slots) THEN "oob"
    ELSE "none"

\* Reading slot i of buf; g is what a read beyond the buffer yields.
Load(buf, i, g) == IF InBounds(buf, i) THEN buf.slots[i + 1] ELSE g

\* Values a read beyond the buffer may yield.
AnyGarbage == Values
NoGarbage == 0

\* What an explicit destructor call leaves in a slot: ~T() of a trivially
\* destructible T does nothing.
Destroyed(x) == IF trivial THEN x ELSE Dead

\* buf with slot i set to x; a write beyond the buffer is lost.
Store(buf, i, x) ==
    IF InBounds(buf, i) THEN [buf EXCEPT !.slots[i + 1] = x] ELSE buf

\* std::copy(src + first, src + first + count, dst + dfirst), also
\* std::move_backward over the same ranges: every source slot is read before
\* it is overwritten, so the result is that of a simultaneous assignment.
StdCopy(src, first, count, dst, dfirst, g) ==
    [buf |-> [dst EXCEPT !.slots =
                 [j \in 1..Len(dst.slots) |->
                     IF j - 1 >= dfirst /\ j - 1 < dfirst + count
                     THEN Load(src, first + (j - 1 - dfirst), g)
                     ELSE dst.slots[j]]],
     ub  |-> Worst(Touch(src, first, count), Touch(dst, dfirst, count))]

\* std::fill_n(buf + first, count, x)
StdFill(buf, first, count, x) ==
    [buf |-> [buf EXCEPT !.slots =
                 [j \in 1..Len(buf.slots) |->
                     IF j - 1 >= first /\ j - 1 < first + count THEN x
                     ELSE buf.slots[j]]],
     ub  |-> Touch(buf, first, count)]

\* std::for_each(buf + first, buf + last, [](reference ref) { ref.~T(); });
\* the destructor of a trivially destructible T accesses nothing.
DestroyRange(buf, first, last) ==
    [buf |-> [buf EXCEPT !.slots =
                 [j \in 1..Len(buf.slots) |->
                     IF j - 1 >= first /\ j - 1 < last THEN Destroyed(buf.slots[j])
                     ELSE buf.slots[j]]],
     ub  |-> IF trivial THEN "none" ELSE Touch(buf, first, last - first)]

\* The outcome of a member function: the object afterwards, the kind of
\* invalid access it made, the iterator it returns (as an offset into the
\* buffer the object then owns).
Outcome(c, u, r) == [c |-> c, ub |-> u, ret |-> r]

----------------------------------------------------------------------------
\* Capacity queries.
size(c) == c.m_vec_size
capacity(c) == c.m_vec_capacity
empty(c) == c.m_vec_size = 0

\* The live contents as the caller sees them: operator[](i) for i < size().
Contents(c) == [i \in 1..c.m_vec_size |-> Load(c.m_buffer, i - 1, NoGarbage)]

\* void realloc_vector(n): m_buffer = std::make_unique<T[]>(n).
realloc_vector(c, n) == [c EXCEPT !.m_buffer = make_unique(n)]

\* reserve with the copy of the old elements left out.
reserve_lossy(c, n, g) ==
    Outcome([c EXCEPT !.m_buffer = make_unique(n), !.m_vec_capacity = n], "none", NoRet)

\* void reserve(n): no test of n against the capacity or the size.
reserve(c, n, g) ==
    LET cp == StdCopy(c.m_buffer, 0, c.m_vec_size, make_unique(n), 0, g)
    IN  Outcome([c EXCEPT !.m_buffer = cp.buf, !.m_vec_capacity = n], cp.ub, NoRet)

\* void resize(n): only reserve(n).
resize(c, n, g) == reserve(c, n, g)

\* m_buffer[m_vec_size++] = T(val), the tail of push_back and emplace_back.
StoreBack(c, x, u) ==
    Outcome([c EXCEPT !.m_buffer = Store(c.m_buffer, c.m_vec_size, x),
                      !.m_vec_size = c.m_vec_size + 1],
            Worst(u, Touch(c.m_buffer, c.m_vec_size, 1)), NoRet)

\* Capacity push_back and insert ask reserve for when the buffer is full.
GrownCapacity(c) == c.m_vec_capacity + 1

\* void push_back(const T&), void push_back(T&&)
push_back(c, x, g) ==
    IF c.m_vec_size >= c.m_vec_capacity
    THEN LET r == reserve(c, GrownCapacity(c), g) IN StoreBack(r.c, x, r.ub)
    ELSE StoreBack(c, x, "none")

\* void emplace_back(Args&&...)
emplace_back(c, x, g) ==
    IF c.m_vec_size >= c.m_vec_capacity
    THEN LET r == reserve(c, c.m_vec_size + 1, g) IN StoreBack(r.c, x, r.ub)
    ELSE StoreBack(c, x, "none")

\* T& emplace_back(Args&&... args), the second overload: it reallocates
\* when capacity() >= size().
emplace_back_ref(c, x, g) ==
    IF c.m_vec_capacity >= c.m_vec_size
    THEN LET r == reserve(c, c.m_vec_size + 1, g) IN StoreBack(r.c, x, r.ub)
    ELSE StoreBack(c, x, "none")

\* void pop_back(): the destructor call and the decrement are both inside
\* the if constexpr, and the slot destroyed is m_buffer[m_vec_size].
pop_back(c) ==
    IF empty(c) THEN Outcome(c, "none", NoRet)
    ELSE IF trivial THEN Outcome(c, "none", NoRet)
    ELSE Outcome([c EXCEPT !.m_buffer =
                               Store(c.m_buffer, c.m_vec_size,
                                     Destroyed(Load(c.m_buffer, c.m_vec_size, NoGarbage))),
                           !.m_vec_size = c.m_vec_size - 1],
                 Touch(c.m_buffer, c.m_vec_size, 1), NoRet)

\* void shrink_to_fit()
shrink_to_fit(c, g) ==
    IF ~empty(c) /\ c.m_vec_capacity >= c.m_vec_size
    THEN reserve(c, c.m_vec_size, g)
    ELSE Outcome(c, "none", NoRet)

\* void clear()
clear(c) ==
    IF empty(c) THEN Outcome(c, "none", NoRet)
    ELSE LET d == DestroyRange(c.m_buffer, 0, c.m_vec_size)
         IN  Outcome([c EXCEPT !.m_buffer = d.buf, !.m_vec_size = 0], d.ub, NoRet)

\* The body of insert and emplace after the capacity test, for a position
\* that is offset k of the buffer the object owns:
\* std::move_backward(pos, end(), end() + 1); m_buffer[get_position(pos)] = T(val); m_vec_size++.
InsertAt(c, k, x, g, r) ==
    LET mv == StdCopy(c.m_buffer, k, c.m_vec_size - k, c.m_buffer, k + 1, g)
    IN  Outcome([c EXCEPT !.m_buffer = Store(mv.buf, k, x),
                          !.m_vec_size = c.m_vec_size + 1],
                Worst(mv.ub, Touch(c.m_buffer, k, 1)), r)

\* The same body after reserve has replaced the buffer: pos still points into
\* the buffer reserve released (get_position(pos) subtracts pointers into two
\* arrays, and m_buffer[get_position(pos)] is pos again), so the shift and the
\* store go through a dangling pointer and the new buffer keeps what reserve
\* put there.  When the object owned no buffer, pos is the null pointer.
InsertStale(old, c, u, r) ==
    Outcome([c EXCEPT !.m_vec_size = c.m_vec_size + 1],
            Worst(u, IF old.m_buffer.null THEN "null" ELSE "stale"), r)

\* void insert(const iterator pos, const T& val), pos == begin() + k
insert(c, k, x, g) ==
    IF c.m_vec_size >= c.m_vec_capacity
    THEN LET r == reserve(c, GrownCapacity(c), g) IN InsertStale(c, r.c, r.ub, NoRet)
    ELSE InsertAt(c, k, x, g, NoRet)

\* iterator emplace(const iterator pos, Args&&...), pos == begin() + k; returns pos.
emplace(c, k, x, g) ==
    IF c.m_vec_size >= c.m_vec_capacity
    THEN LET r == reserve(c, c.m_vec_size + 1, g) IN InsertStale(c, r.c, r.ub, Stale)
    ELSE InsertAt(c, k, x, g, k)

\* void assign(const std::size_t n, T& val)
assign(c, n, x, g) ==
    LET r == IF c.m_vec_size >= c.m_vec_capacity
             THEN reserve(c, c.m_vec_capacity + n, g)
             ELSE Outcome(c, "none", NoRet)
        f == StdFill(r.c.m_buffer, 0, n, x)
    IN  Outcome([r.c EXCEPT !.m_buffer = f.buf, !.m_vec_size = n],
                Worst(r.ub, f.ub), NoRet)

\* void assign(const std::initializer_list<T>& il)
assign_il(c, il) ==
    Outcome([c EXCEPT !.m_buffer = [null |-> FALSE, slots |-> il],
                      !.m_vec_size = Len(il),
                      !.m_vec_capacity = Len(il)],
            "none", NoRet)

\* void assign(const iterator first, const iterator last), the range being
\* slots [i, j) of the buffer src: only std::copy(first, last, m_buffer.get()).
assign_range(c, src, i, j, g) ==
    LET cp == StdCopy(src, i, j - i, c.m_buffer, 0, g)
    IN  Outcome([c EXCEPT !.m_buffer = cp.buf], cp.ub, NoRet)

\* iterator erase(const iterator position), position == begin() + k
erase(c, k, g) ==
    IF empty(c) THEN Outcome(c, "none", Stale)
    ELSE LET d  == Store(c.m_buffer, k, Destroyed(Load(c.m_buffer, k, g)))
             cp == StdCopy(d, k + 1, c.m_vec_size - (k + 1), d, k, g)
         IN  Outcome([c EXCEPT !.m_buffer = cp.buf,
                               !.m_vec_size = c.m_vec_size - 1],
                     Worst(Touch(c.m_buffer, k, 1), cp.ub), k)

\* iterator erase(const iterator first, const iterator last),
\* first == begin() + i, last == begin() + j
erase_range(c, i, j) ==
    LET d == DestroyRange(c.m_buffer, i, j)
    IN  Outcome([c EXCEPT !.m_buffer = d.buf, !.m_vec_size = 0], d.ub, i)

----------------------------------------------------------------------------
\* explicit constexpr vector()
vector_default ==
    [alive |-> TRUE, m_buffer |-> NullPtr, m_vec_size |-> 0, m_vec_capacity |-> 0]

\* explicit vector(const std::size_t vec_capacity)
vector_capacity(n) ==
    [alive |-> TRUE, m_buffer |-> make_unique(n), m_vec_size |-> 0, m_vec_capacity |-> n]

\* vector(const std::initializer_list<T>& init)
vector_init(il) ==
    [alive |-> TRUE, m_buffer |-> [null |-> FALSE, slots |-> il],
     m_vec_size |-> Len(il), m_vec_capacity |-> Len(il)]

\* vector(const vector<T>& vec)
vector_copy(vec, g) ==
    LET c  == realloc_vector([vec EXCEPT !.alive = TRUE], vec.m_vec_capacity)
        cp == StdCopy(vec.m_buffer, 0, vec.m_vec_size, c.m_buffer, 0, g)
    IN  Outcome([c EXCEPT !.m_buffer = cp.buf], cp.ub, NoRet)

\* What a move leaves in the source: m_buffer was moved from; std::move of a
\* std::size_t is a copy, so m_vec_size and m_vec_capacity stay.
MovedFrom(vec) == [vec EXCEPT !.m_buffer = NullPtr]

\* vector(vector<T>&& vec) and operator=(vector<T>&& vec): what the
\* destination holds afterwards.
vector_move(vec) ==
    [alive |-> TRUE, m_buffer |-> vec.m_buffer,
     m_vec_size |-> vec.m_vec_size, m_vec_capacity |-> vec.m_vec_capacity]

\* void swap(vector<T>& vec): exchanges m_vec_size and m_vec_capacity of
\* *this with those of vec, which operator= gives as *this; returns *this after.
swap(c, vec) ==
    [c EXCEPT !.m_vec_size = vec.m_vec_size, !.m_vec_capacity = vec.m_vec_capacity]

\* const vector& operator=(const vector<T>& vec); self says vec is *this, so
\* that vec.m_buffer is the buffer realloc_vector has just allocated.
copy_assign(c, vec, self, g) ==
    LET d   == realloc_vector(swap(c, c), swap(c, c).m_vec_capacity)
        src == IF self THEN d.m_buffer ELSE vec.m_buffer
        n   == IF self THEN d.m_vec_size ELSE vec.m_vec_size
        cp  == StdCopy(src, 0, n, d.m_buffer, 0, g)
    IN  Outcome([d EXCEPT !.m_buffer = cp.buf], cp.ub, NoRet)

----------------------------------------------------------------------------
\* What an accessor gives: whether it throws std::out_of_range, the element
\* it returns a reference to, the kind of invalid access it made.
Got(t, x, u) == [throws |-> t, value |-> x, ub |-> u]

\* reference at(const std::size_t n): throws only when n > size().
at(c, n, g) ==
    IF n > size(c) THEN Got(TRUE, NoGarbage, "none")
    ELSE Got(FALSE, Load(c.m_buffer, n, g), Touch(c.m_buffer, n, 1))

\* reference front()
front(c, g) == Got(FALSE, Load(c.m_buffer, 0, g), Touch(c.m_buffer, 0, 1))

\* reference back()
back(c, g) ==
    Got(FALSE, Load(c.m_buffer, size(c) - 1, g), Touch(c.m_buffer, size(c) - 1, 1))

\* What a comparison gives: its result and the kind of invalid access made.
Compared(b, u) == [result |-> b, ub |-> u]

\* Offsets below size(lhs) at which lhs and rhs.begin()[i] differ.
Mismatches(lhs, rhs, g) ==
    {i \in 0..(size(lhs) - 1) : Load(lhs.m_buffer, i, g) # Load(rhs.m_buffer, i, g)}

\* std::equal(lhs.begin(), lhs.end(), rhs.begin()): walks size(lhs) elements
\* of both buffers, up to the first mismatch; size(rhs) is never looked at.
StdEqual(lhs, rhs, g) ==
    LET mm == Mismatches(lhs, rhs, g)
        n  == IF mm = {} THEN size(lhs)
              ELSE 1 + CHOOSE i \in mm : \A j \in mm : i <= j
    IN  Compared(mm = {},
                 Worst(Touch(lhs.m_buffer, 0, n), Touch(rhs.m_buffer, 0, n)))

\* bool operator==(lhs, rhs)
operator_eq(lhs, rhs, g) == StdEqual(lhs, rhs, g)

\* bool operator!=(lhs, rhs)
operator_ne(lhs, rhs, g) ==
    Compared(~StdEqual(lhs, rhs, g).result, StdEqual(lhs, rhs, g).ub)

\* The loop of std::lexicographical_compare from offset i on.
RECURSIVE LexLoop(_, _, _, _)
LexLoop(lhs, rhs, i, g) ==
    IF i < size(lhs) /\ i < size(rhs)
    THEN LET x == Load(lhs.m_buffer, i, g)
             y == Load(rhs.m_buffer, i, g)
             u == Worst(Touch(lhs.m_buffer, i, 1), Touch(rhs.m_buffer, i, 1))
         IN  IF x < y THEN Compared(TRUE, u)
             ELSE IF y < x THEN Compared(FALSE, u)
             ELSE LET r == LexLoop(lhs, rhs, i + 1, g)
                  IN  Compared(r.result, Worst(u, r.ub))
    ELSE Compared(i = size(lhs) /\ i # size(rhs), "none")

\* bool operator<(lhs, rhs): std::lexicographical_compare over both ranges.
operator_lt(lhs, rhs, g) == LexLoop(lhs, rhs, 0, g)

\* bool operator<=(lhs, rhs): return false.
operator_le(lhs, rhs, g) == Compared(FALSE, "none")

\* bool operator>(lhs, rhs): return false.
operator_gt(lhs, rhs, g) == Compared(FALSE, "none")

\* bool operator>=(lhs, rhs): return false.
operator_ge(lhs, rhs, g) == Compared(FALSE, "none")

----------------------------------------------------------------------------
\* Initializer lists and counts the operations are called with.
InitLists == UNION {[1..n -> Values] : n \in Caps}

\* What reads beyond the end of c's buffer may yield.
Garbage(c) ==
    IF ~c.m_buffer.null /\ c.m_vec_size > Len(c.m_buffer.slots)
    THEN AnyGarbage ELSE {NoGarbage}

\* What the object c takes of the heap: the slots of its buffer, or of the
\* buffer its size and its capacity speak of.
Footprint(c) ==
    LET m == IF c.m_vec_size >= c.m_vec_capacity THEN c.m_vec_size ELSE c.m_vec_capacity
    IN  IF Len(c.m_buffer.slots) >= m THEN Len(c.m_buffer.slots) ELSE m

\* The objects explored fit the heap.
Bounded(o) == Footprint(o["a"]) + Footprint(o["b"]) <= MaxHeap

NoPushes == [only |-> FALSE, seq |-> <<>>]

Alive(v) == obj[v].alive

\* Ends an operation that left the objects as in nobj: an access through the
\* null pointer terminates the process, another invalid access may.  No
\* object is left when the process is terminated.
Finish(name, v, nobj, r, np) ==
    /\ Bounded(nobj)
    /\ \/ /\ r.ub # "null"
          /\ obj' = nobj
          /\ crashed' = FALSE
          /\ call' = [op |-> name, v |-> v]
       \/ /\ r.ub # "none"
          /\ obj' = [w \in Vecs |-> Unborn]
          /\ crashed' = TRUE
          /\ call' = [op |-> name, v |-> v]
    /\ ub' = r.ub
    /\ pushes' = [pushes EXCEPT ![v] = np]
    /\ UNCHANGED trivial

\* An operation on the one object v.
Apply(name, v, r) ==
    Finish(name, v, [obj EXCEPT ![v] = r.c], r, NoPushes)

Init ==
    /\ obj = [v \in Vecs |-> Unborn]
    /\ trivial \in BOOLEAN
    /\ crashed = FALSE
    /\ ub = "none"
    /\ call = [op |-> "start", v |-> "a"]
    /\ pushes = [v \in Vecs |-> NoPushes]

ConstructDefault(v) ==
    /\ ~crashed /\ ~Alive(v)
    /\ Finish("vector", v, [obj EXCEPT ![v] = vector_default],
              Outcome(vector_default, "none", NoRet), [only |-> TRUE, seq |-> <<>>])

ConstructCapacity(v, n) ==
    /\ ~crashed /\ ~Alive(v)
    /\ Apply("vector_capacity", v, Outcome(vector_capacity(n), "none", NoRet))

ConstructInit(v, il) ==
    /\ ~crashed /\ ~Alive(v)
    /\ Apply("vector_init", v, Outcome(vector_init(il), "none", NoRet))

\* vector v(w)
ConstructCopy(v, w) ==
    /\ ~crashed /\ ~Alive(v) /\ Alive(w)
    /\ \E g \in Garbage(obj[w]) : Apply("vector_copy", v, vector_copy(obj[w], g))

\* vector v(std::move(w))
ConstructMove(v, w) ==
    /\ ~crashed /\ ~Alive(v) /\ Alive(w)
    /\ Finish("vector_move", v,
              [obj EXCEPT ![v] = vector_move(obj[w]), ![w] = MovedFrom(obj[w])],
              Outcome(vector_move(obj[w]), "none", NoRet), NoPushes)
    /\ pushes'[w] = NoPushes

\* The implicit destructor: the std::unique_ptr releases the buffer.
Destruct(v) ==
    /\ ~crashed /\ Alive(v)
    /\ Apply("destructor", v, Outcome(Unborn, "none", NoRet))

\* v = w, also with w being v
CopyAssign(v, w) ==
    /\ ~crashed /\ Alive(v) /\ Alive(w)
    /\ \E g \in Garbage(obj[w]) :
          Apply("copy_assign", v, copy_assign(obj[v], obj[w], w = v, g))

\* v = std::move(w); on self-assignment the std::unique_ptr keeps its buffer
\* and the two counters are assigned to themselves.
MoveAssign(v, w) ==
    /\ ~crashed /\ Alive(v) /\ Alive(w)
    /\ Finish("move_assign", v,
              IF w = v THEN obj
              ELSE [obj EXCEPT ![v] = vector_move(obj[w]), ![w] = MovedFrom(obj[w])],
              Outcome(vector_move(obj[w]), "none", NoRet), NoPushes)
    /\ pushes'[w] = NoPushes

Reserve(v, n) ==
    /\ ~crashed /\ Alive(v)
    /\ \E g \in Garbage(obj[v]) : Apply("reserve", v, reserve(obj[v], n, g))

Resize(v, n) ==
    /\ ~crashed /\ Alive(v)
    /\ \E g \in Garbage(obj[v]) : Apply("resize", v, resize(obj[v], n, g))

ShrinkToFit(v) ==
    /\ ~crashed /\ Alive(v)
    /\ \E g \in Garbage(obj[v]) : Apply("shrink_to_fit", v, shrink_to_fit(obj[v], g))

PushBack(v, x) ==
    /\ ~crashed /\ Alive(v)
    /\ \E g \in Garbage(obj[v]) :
          Finish("push_back", v, [obj EXCEPT ![v] = push_back(obj[v], x, g).c],
                 push_back(obj[v], x, g),
                 IF pushes[v].only
                 THEN [only |-> TRUE, seq |-> pushes[v].seq \o <<x>>]
                 ELSE NoPushes)

\* The two overloads of emplace_back take the same arguments; the call runs
\* one of them.
EmplaceBack(v, x) ==
    /\ ~crashed /\ Alive(v)
    /\ \E g \in Garbage(obj[v]) :
          \/ Apply("emplace_back", v, emplace_back(obj[v], x, g))
          \/ Apply("emplace_back", v, emplace_back_ref(obj[v], x, g))

PopBack(v) ==
    /\ ~crashed /\ Alive(v)
    /\ Apply("pop_back", v, pop_back(obj[v]))

\* v.insert(v.begin() + k, x) with k in [0, size()]
Insert(v, k, x) ==
    /\ ~crashed /\ Alive(v)
    /\ k \in 0..obj[v].m_vec_size
    /\ \E g \in Garbage(obj[v]) : Apply("insert", v, insert(obj[v], k, x, g))

\* v.emplace(v.begin() + k, x) with k in [0, size()]
Emplace(v, k, x) ==
    /\ ~crashed /\ Alive(v)
    /\ k \in 0..obj[v].m_vec_size
    /\ \E g \in Garbage(obj[v]) : Apply("emplace", v, emplace(obj[v], k, x, g))

Assign(v, n, x) ==
    /\ ~crashed /\ Alive(v)
    /\ \E g \in Garbage(obj[v]) : Apply("assign", v, assign(obj[v], n, x, g))

AssignInit(v, il) ==
    /\ ~crashed /\ Alive(v)
    /\ Apply("assign_il", v, assign_il(obj[v], il))

\* v.assign(w.begin() + i, w.begin() + j) with a range of another object.
AssignRange(v, w, i, j) ==
    /\ ~crashed /\ Alive(v) /\ Alive(w)
    /\ j \in 0..obj[w].m_vec_size /\ i \in 0..j
    /\ \E g \in Garbage(obj[w]) :
          Apply("assign_range", v, assign_range(obj[v], obj[w].m_buffer, i, j, g))

\* v.erase(v.begin() + k) with k in [0, size())
Erase(v, k) ==
    /\ ~crashed /\ Alive(v)
    /\ k \in 0..(obj[v].m_vec_size - 1)
    /\ \E g \in Garbage(obj[v]) : Apply("erase", v, erase(obj[v], k, g))

\* v.erase(v.begin() + i, v.begin() + j) with 0 <= i <= j <= size()
EraseRange(v, i, j) ==
    /\ ~crashed /\ Alive(v)
    /\ j \in 0..obj[v].m_vec_size /\ i \in 0..j
    /\ Apply("erase_range", v, erase_range(obj[v], i, j))

Clear(v) ==
    /\ ~crashed /\ Alive(v)
    /\ Apply("clear", v, clear(obj[v]))

\* An operation that reads v and leaves every object as it is.
Observe(name, v, u) ==
    Finish(name, v, obj, [ub |-> u], NoPushes)

At(v, n) ==
    /\ ~crashed /\ Alive(v)
    /\ Observe("at", v, at(obj[v], n, NoGarbage).ub)

\* v.front() with size() > 0
Front(v) ==
    /\ ~crashed /\ Alive(v)
    /\ ~empty(obj[v])
    /\ Observe("front", v, front(obj[v], NoGarbage).ub)

\* v.back() with size() > 0
Back(v) ==
    /\ ~crashed /\ Alive(v)
    /\ ~empty(obj[v])
    /\ Observe("back", v, back(obj[v], NoGarbage).ub)

Equal(v, w) ==
    /\ ~crashed /\ Alive(v) /\ Alive(w)
    /\ Observe("operator==", v, operator_eq(obj[v], obj[w], NoGarbage).ub)

NotEqual(v, w) ==
    /\ ~crashed /\ Alive(v) /\ Alive(w)
    /\ Observe("operator!=", v, operator_ne(obj[v], obj[w], NoGarbage).ub)

Less(v, w) ==
    /\ ~crashed /\ Alive(v) /\ Alive(w)
    /\ Observe("operator<", v, operator_lt(obj[v], obj[w], NoGarbage).ub)

LessEqual(v, w) ==
    /\ ~crashed /\ Alive(v) /\ Alive(w)
    /\ Observe("operator<=", v, operator_le(obj[v], obj[w], NoGarbage).ub)

Greater(v, w) ==
    /\ ~crashed /\ Alive(v) /\ Alive(w)
    /\ Observe("operator>", v, operator_gt(obj[v], obj[w], NoGarbage).ub)

GreaterEqual(v, w) ==
    /\ ~crashed /\ Alive(v) /\ Alive(w)
    /\ Observe("operator>=", v, operator_ge(obj[v], obj[w], NoGarbage).ub)

\* The comparisons of v with w.
Compare(v, w) ==
    \/ Equal(v, w)
    \/ NotEqual(v, w)
    \/ Less(v, w)
    \/ LessEqual(v, w)
    \/ Greater(v, w)
    \/ GreaterEqual(v, w)

\* The operations that change one object.
Single(v) ==
    \/ ConstructDefault(v)
    \/ \E n \in Caps : ConstructCapacity(v, n)
    \/ \E il \in InitLists : ConstructInit(v, il)
    \/ Destruct(v)
    \/ CopyAssign(v, v)
    \/ MoveAssign(v, v)
    \/ \E n \in Caps : Reserve(v, n)
    \/ \E n \in Caps : Resize(v, n)
    \/ ShrinkToFit(v)
    \/ \E x \in Values : PushBack(v, x)
    \/ \E x \in Values : EmplaceBack(v, x)
    \/ PopBack(v)
    \/ \E k \in Caps, x \in Values : Insert(v, k, x)
    \/ \E k \in Caps, x \in Values : Emplace(v, k, x)
    \/ \E n \in Caps, x \in Values : Assign(v, n, x)
    \/ \E il \in InitLists : AssignInit(v, il)
    \/ \E k \in Caps : Erase(v, k)
    \/ \E i, j \in Caps : EraseRange(v, i, j)
    \/ Clear(v)

\* The accessors of v.
Read(v) ==
    \/ \E n \in Caps : At(v, n)
    \/ Front(v)
    \/ Back(v)

\* The operations that involve a second object.
Paired(v, w) ==
    \/ ConstructCopy(v, w)
    \/ ConstructMove(v, w)
    \/ CopyAssign(v, w)
    \/ MoveAssign(v, w)
    \/ \E i, j \in Caps : AssignRange(v, w, i, j)

Next ==
    \/ \E v \in Vecs : Single(v)
    \/ \E v \in Vecs : \E w \in Vecs \ {v} : Paired(v, w)

\* A program with two vector objects.
Spec == Init /\ [][Next]_vars

NextOne ==
    \/ Single("a")
    \/ Read("a")
    \/ Compare("a", "a")

\* A program with one vector object, which it also reads and compares with
\* itself.
SpecOne == Init /\ [][NextOne]_vars

NextCmp ==
    \/ \E v \in Vecs : ConstructDefault(v)
    \/ \E v \in Vecs : \E il \in InitLists : ConstructInit(v, il)
    \/ \E v \in Vecs : \E x \in Values : PushBack(v, x)
    \/ \E v \in Vecs : Clear(v)
    \/ \E v \in Vecs : Destruct(v)
    \/ \E v \in Vecs : \E w \in Vecs : Compare(v, w)

\* A program that builds two vector objects and compares them.
SpecCmp == Init /\ [][NextCmp]_vars

----------------------------------------------------------------------------
\* The sequence s with x put before its element at offset k.
InsertedAt(s, k, x) == SubSeq(s, 1, k) \o <<x>> \o SubSeq(s, k + 1, Len(s))

\* The sequence s without its elements at offsets [i, j).
Without(s, i, j) == SubSeq(s, 1, i) \o SubSeq(s, j + 1, Len(s))

Max(m, n) == IF m >= n THEN m ELSE n

\* C1: in every reachable state, every object has 0 <= size() <= capacity().
C1_SizeWithinCapacity ==
    \A v \in Vecs :
        Alive(v) => 0 <= size(obj[v]) /\ size(obj[v]) <= capacity(obj[v])

\* C2: after N push_back calls on a default-constructed object, size() is N
\* and operator[](i) is the i-th value pushed, for every i < N.
C2_PushBackSequence ==
    \A v \in Vecs :
        pushes[v].only =>
            /\ Alive(v)
            /\ size(obj[v]) = Len(pushes[v].seq)
            /\ Contents(obj[v]) = pushes[v].seq

\* C2 witness: two different values were pushed on a default-constructed
\* object, the second push reallocating the buffer of the first.
C2_Witness ==
    /\ call = [op |-> "push_back", v |-> "a"]
    /\ pushes["a"].only
    /\ Len(pushes["a"].seq) >= 2
    /\ pushes["a"].seq[1] # pushes["a"].seq[2]

\* C3: pop_back() changes nothing on an empty object; otherwise it destroys
\* exactly the element at slot size-1 and decrements the size, the capacity
\* and the other slots staying as they were.
C3_PopBack ==
    [][\A v \in Vecs :
          PopBack(v) =>
              IF empty(obj[v]) THEN obj' = obj
              ELSE obj' = [obj EXCEPT
                      ![v].m_buffer = Store(obj[v].m_buffer, size(obj[v]) - 1,
                                            Destroyed(Load(obj[v].m_buffer,
                                                           size(obj[v]) - 1, NoGarbage))),
                      ![v].m_vec_size = size(obj[v]) - 1]]_vars

\* C4: a move from w into another object v gives v the size, capacity and
\* elements w had, and leaves w with size() == 0, capacity() == 0 and no
\* buffer, so that push_back(x) on w then gives size() == 1 and w[0] == x.
C4_MoveLeavesSourceEmpty ==
    [][\A v \in Vecs : \A w \in Vecs \ {v} :
          (ConstructMove(v, w) \/ MoveAssign(v, w)) =>
              /\ ~crashed'
              /\ size(obj'[v]) = size(obj[w])
              /\ capacity(obj'[v]) = capacity(obj[w])
              /\ Contents(obj'[v]) = Contents(obj[w])
              /\ size(obj'[w]) = 0
              /\ capacity(obj'[w]) = 0
              /\ obj'[w].m_buffer = NullPtr
              /\ \A x \in Values :
                    LET r == push_back(obj'[w], x, NoGarbage)
                    IN  r.ub = "none" /\ size(r.c) = 1 /\ Contents(r.c) = <<x>>]_vars

\* C5: after the copy assignment v = w, v has the size and the elements of
\* w and w is unchanged; after v = v, v has the size and the elements it had.
C5_CopyAssign ==
    [][\A v, w \in Vecs :
          CopyAssign(v, w) =>
              /\ ~crashed'
              /\ size(obj'[v]) = size(obj[w])
              /\ Contents(obj'[v]) = Contents(obj[w])
              /\ w # v => obj'[w] = obj[w]]_vars

\* C6: an object v copy-constructed from w has the size and the elements of
\* w, in order, and w is unchanged; afterwards an operation on one object
\* leaves the other object as it was.
C6_CopyConstruct ==
    [][/\ \A v \in Vecs : \A w \in Vecs \ {v} :
             ConstructCopy(v, w) =>
                 /\ ~crashed'
                 /\ size(obj'[v]) = size(obj[w])
                 /\ Contents(obj'[v]) = Contents(obj[w])
                 /\ obj'[w] = obj[w]
       /\ \A v \in Vecs : \A w \in Vecs \ {v} :
             (call'.v = v /\ ~crashed'
                 /\ call'.op \notin {"vector_move", "move_assign"})
                 => obj'[w] = obj[w]]_vars

\* C7: reserve(n) leaves the size and the elements unchanged and ends with
\* capacity() == max(old capacity, n), changing nothing when n <= capacity().
C7_Reserve ==
    [][\A v \in Vecs : \A n \in Caps :
          Reserve(v, n) =>
              /\ ~crashed'
              /\ size(obj'[v]) = size(obj[v])
              /\ Contents(obj'[v]) = Contents(obj[v])
              /\ capacity(obj'[v]) = Max(capacity(obj[v]), n)
              /\ n <= capacity(obj[v]) => obj' = obj]_vars

\* C8: insert(begin() + k, x) and emplace(begin() + k, x) end with one more
\* element and the contents e_0..e_{k-1}, x, e_k..e_{s-1}, also when the
\* buffer was full; emplace returns an iterator to slot k of the buffer.
C8_InsertAtOffset ==
    [][\A v \in Vecs : \A k \in Caps : \A x \in Values :
          /\ Insert(v, k, x) =>
                /\ ~crashed'
                /\ size(obj'[v]) = size(obj[v]) + 1
                /\ Contents(obj'[v]) = InsertedAt(Contents(obj[v]), k, x)
          /\ Emplace(v, k, x) =>
                /\ ~crashed'
                /\ size(obj'[v]) = size(obj[v]) + 1
                /\ Contents(obj'[v]) = InsertedAt(Contents(obj[v]), k, x)
                /\ \A g \in Garbage(obj[v]) : emplace(obj[v], k, x, g).ret = k]_vars

\* C9: on a non-empty object, insert(begin(), x) followed by erase(begin())
\* restores the size and the contents; erase(begin() + k) removes the element
\* at offset k, decrements the size and returns an iterator to slot k.
C9_InsertEraseInverse ==
    [][\A v \in Vecs :
          /\ \A x \in Values :
                (Insert(v, 0, x) /\ ~empty(obj[v])) =>
                    /\ ~crashed'
                    /\ LET e == erase(obj'[v], 0, NoGarbage)
                       IN  /\ e.ub = "none"
                           /\ size(e.c) = size(obj[v])
                           /\ Contents(e.c) = Contents(obj[v])
          /\ \A k \in Caps :
                Erase(v, k) =>
                    /\ ~crashed'
                    /\ size(obj'[v]) = size(obj[v]) - 1
                    /\ Contents(obj'[v]) = Without(Contents(obj[v]), k, k + 1)
                    /\ \A g \in Garbage(obj[v]) : erase(obj[v], k, g).ret = k]_vars

\* C10: erase(begin() + i, begin() + j) ends with size() == s - (j - i) and
\* the contents e_0..e_{i-1}, e_j..e_{s-1}; with i == j nothing changes.
C10_EraseRange ==
    [][\A v \in Vecs : \A i, j \in Caps :
          EraseRange(v, i, j) =>
              /\ ~crashed'
              /\ size(obj'[v]) = size(obj[v]) - (j - i)
              /\ Contents(obj'[v]) = Without(Contents(obj[v]), i, j)
              /\ i = j => obj' = obj]_vars

\* C11: at(i) signals an out-of-range error for every i >= size(), i == size()
\* included, and returns the element at slot i for every i < size(); in both
\* cases size, capacity and contents are unchanged.
C11_AtChecked ==
    [][\A n \in Caps :
          At("a", n) =>
              /\ ~crashed'
              /\ at(obj["a"], n, NoGarbage).throws <=> n >= size(obj["a"])
              /\ n < size(obj["a"]) =>
                     at(obj["a"], n, NoGarbage).value = Contents(obj["a"])[n + 1]
              /\ obj' = obj]_vars

\* C12: a == b is true if and only if a.size() == b.size() and a[i] == b[i]
\* for every i < a.size(), so a proper prefix of b is not equal to b; a != b
\* is the negation of a == b.
C12_Equality ==
    [][\A v, w \in Vecs :
          Equal(v, w) \/ NotEqual(v, w) =>
              /\ ~crashed'
              /\ operator_eq(obj[v], obj[w], NoGarbage).result
                     <=> Contents(obj[v]) = Contents(obj[w])
              /\ operator_ne(obj[v], obj[w], NoGarbage).result
                     <=> ~operator_eq(obj[v], obj[w], NoGarbage).result]_vars

\* The sequence s lexicographically precedes the sequence t: they agree on the
\* first k elements, and then s ends where t goes on, or s has the lesser one.
Precedes(s, t) ==
    \E k \in 0..Len(s) :
        /\ k <= Len(t)
        /\ \A i \in 1..k : s[i] = t[i]
        /\ \/ k = Len(s) /\ k < Len(t)
           \/ k < Len(s) /\ k < Len(t) /\ s[k + 1] < t[k + 1]

\* C13: the four ordering operators agree with the lexicographic order of the
\* element sequences: a < b iff a precedes b, a > b iff b < a, a <= b iff not
\* (b < a), a >= b iff not (a < b); so a <= a and a >= a are true.
C13_Ordering ==
    [][\A v, w \in Vecs :
          Less(v, w) \/ LessEqual(v, w) \/ Greater(v, w) \/ GreaterEqual(v, w) =>
              /\ ~crashed'
              /\ operator_lt(obj[v], obj[w], NoGarbage).result
                     <=> Precedes(Contents(obj[v]), Contents(obj[w]))
              /\ operator_gt(obj[v], obj[w], NoGarbage).result
                     <=> operator_lt(obj[w], obj[v], NoGarbage).result
              /\ operator_le(obj[v], obj[w], NoGarbage).result
                     <=> ~operator_lt(obj[w], obj[v], NoGarbage).result
              /\ operator_ge(obj[v], obj[w], NoGarbage).result
                     <=> ~operator_lt(obj[v], obj[w], NoGarbage).result]_vars

\* The capacity push_back gives a full container of capacity one: the growth
\* factor, if there is one.
GrowthFactor == capacity(push_back(vector_init(<<NoGarbage>>), NoGarbage, NoGarbage).c)

\* C14: when push_back is called with size == capacity == c, the capacity
\* afterwards is max(1, c * g) for one fixed constant g > 1, never c plus a
\* fixed additive constant (so N push_back calls on an empty container make
\* fewer than N reallocations).
C14_GeometricGrowth ==
    [][\A x \in Values :
          PushBack("a", x) /\ size(obj["a"]) = capacity(obj["a"]) =>
              /\ ~crashed'
              /\ GrowthFactor > 1
              /\ capacity(obj'["a"]) = Max(1, capacity(obj["a"]) * GrowthFactor)]_vars

\* C15: resize(n) ends with size() == n.  If n > old size the elements at
\* [0, old size) are unchanged, the slots [old size, n) hold value-constructed
\* elements and capacity >= n; if n < old size the elements at [0, n) are
\* unchanged and the elements at [n, old size) are destructed.
C15_Resize ==
    [][\A n \in Caps :
          Resize("a", n) =>
              LET old == obj["a"]
                  new == obj'["a"]
              IN  /\ ~crashed'
                  /\ size(new) = n
                  /\ n > size(old) =>
                         /\ SubSeq(Contents(new), 1, size(old)) = Contents(old)
                         /\ \A i \in size(old)..(n - 1) :
                                Load(new.m_buffer, i, NoGarbage) = make_unique(n).slots[i + 1]
                         /\ capacity(new) >= n
                  /\ n < size(old) =>
                         /\ Contents(new) = SubSeq(Contents(old), 1, n)
                         /\ \A i \in n..(size(old) - 1) :
                                Load(new.m_buffer, i, NoGarbage)
                                    = Destroyed(Load(old.m_buffer, i, NoGarbage))]_vars

\* C16: whatever the prior size and capacity, assign(n, v) ends with
\* size() == n, capacity() >= n and every element at [0, n) equal to v.
C16_AssignFill ==
    [][\A n \in Caps : \A x \in Values :
          Assign("a", n, x) =>
              /\ ~crashed'
              /\ size(obj'["a"]) = n
              /\ capacity(obj'["a"]) >= n
              /\ Contents(obj'["a"]) = [i \in 1..n |-> x]]_vars

\* C17: on a non-empty container pop_back() followed by push_back(x) restores
\* size() to its value before the pop and makes back() == x; and over
\* interleaved push_back and pop_back calls capacity() never decreases from
\* one state to the next.
C17_PopThenPush ==
    [][/\ PopBack("a") /\ ~empty(obj["a"]) =>
              /\ ~crashed'
              /\ \A x \in Values :
                     LET r == push_back(obj'["a"], x, NoGarbage)
                     IN  /\ r.ub = "none"
                         /\ size(r.c) = size(obj["a"])
                         /\ back(r.c, NoGarbage).value = x
       /\ PopBack("a") \/ (\E x \in Values : PushBack("a", x)) =>
              crashed' \/ capacity(obj'["a"]) >= capacity(obj["a"])]_vars

\* C18: from any reachable state clear() ends with size() == 0 and
\* empty() == true, and capacity() equal to its value before the call.
C18_Clear ==
    [][\A v \in Vecs :
          Clear(v) =>
              /\ ~crashed'
              /\ size(obj'[v]) = 0
              /\ empty(obj'[v])
              /\ capacity(obj'[v]) = capacity(obj[v])]_vars

\* C19: emplace_back reallocates only when size == capacity: called with
\* size < capacity it leaves capacity() unchanged, appends the constructed
\* element at slot size and increments size by one; it never reduces capacity.
C19_EmplaceBack ==
    [][\A x \in Values :
          EmplaceBack("a", x) =>
              LET old == obj["a"]
                  new == obj'["a"]
              IN  /\ ~crashed'
                  /\ size(old) < capacity(old) =>
                         /\ capacity(new) = capacity(old)
                         /\ size(new) = size(old) + 1
                         /\ Contents(new) = Contents(old) \o <<x>>
                  /\ capacity(new) # capacity(old) => size(old) = capacity(old)
                  /\ capacity(new) >= capacity(old)]_vars

\* C20: for any sequence of public operations called within their documented
\* preconditions, every slot an operation reads or writes lies in [0, n) of
\* a currently allocated buffer of n slots owned by the container operated
\* on: no operation touches a released buffer, a null buffer, or an index at
\* or beyond the allocated length.
C20_MemorySafe == ub = "none" /\ ~crashed

====
